---- MODULE Spec2Model ----
(***************************************************************************)
(* crates/rustdoc_to_markdown/src/markdown_writer.rs                       *)
(*                                                                         *)
(* MarkdownWriter walks a parsed HTML tree depth first, appends Markdown   *)
(* to a buffer on entering and leaving elements and on text nodes, and     *)
(* finally normalizes the buffer (prettify_markdown).                      *)
(*                                                                         *)
(* Text is a sequence of characters; a character is a one-letter string.   *)
(* An attribute value is a sequence of characters as well, where a class   *)
(* word ("rust", "item-name", ...) stands for its letters taken together.  *)
(***************************************************************************)
EXTENDS Integers, Sequences, FiniteSets, TLC

VARIABLES
    tree,                   \* the root node handed to run (read-only)
    frames,                 \* the call stack of visit_node, outermost first
    current_element_stack,  \* MarkdownWriter.current_element_stack
    markdown,               \* MarkdownWriter.markdown
    phase,                  \* "visit" | "done"; "norm0".."norm2" in NormSpec
    result                  \* the String returned by run

vars == <<tree, frames, current_element_stack, markdown, phase, result>>

----------------------------------------------------------------------------
(* Characters *)

NL   == "\n"
CR   == "\r"
TAB  == "\t"
SP   == " "
SECT == "sect"      \* the section sign U+00A7
BT   == "bt"        \* the backtick U+0060
HASH == "#"

\* char::is_whitespace / the regex class \s, on the characters of the model
Whitespace == {SP, TAB, NL, CR}

----------------------------------------------------------------------------
(* Bounds *)

MaxTextLen == 3     \* longest generated text node
MaxAttrs   == 2     \* most attributes on a generated element
MaxNormLen == 7     \* longest buffer handed to prettify_markdown in NormSpec

----------------------------------------------------------------------------
(* Strings *)

Last(s) == s[Len(s)]

Front(s) == SubSeq(s, 1, Len(s) - 1)

SetMin(S) == CHOOSE x \in S : \A y \in S : x <= y

SetMax(S) == CHOOSE x \in S : \A y \in S : y <= x

\* all sequences over S of length at most n
RECURSIVE SeqsUpTo(_, _)
SeqsUpTo(S, n) ==
    IF n = 0 THEN {<<>>}
    ELSE LET shorter == SeqsUpTo(S, n - 1)
         IN  shorter \cup {Append(s, c) : s \in {t \in shorter : Len(t) = n - 1}, c \in S}

\* the concatenation of a sequence of strings
RECURSIVE Concat(_)
Concat(ss) == IF ss = <<>> THEN <<>> ELSE Head(ss) \o Concat(Tail(ss))

\* str::contains
IsSubstring(t, s) ==
    \E i \in 0..(Len(s) - Len(t)) : SubSeq(s, i + 1, i + Len(t)) = t

\* str::trim_matches(pred): strips the characters of set from both ends
trim_matches(s, set) ==
    LET keep == {i \in 1..Len(s) : s[i] \notin set}
    IN  IF keep = {} THEN <<>> ELSE SubSeq(s, SetMin(keep), SetMax(keep))

\* str::trim
trim(s) == trim_matches(s, Whitespace)

\* length of the run of character c that s starts with
RECURSIVE RunLen(_, _)
RunLen(s, c) ==
    IF s = <<>> \/ Head(s) # c THEN 0 ELSE 1 + RunLen(Tail(s), c)

\* str::split: the pieces between the separators, empty pieces included
RECURSIVE split(_, _)
split(s, sep) ==
    LET at == {i \in 1..Len(s) : s[i] = sep}
    IN  IF at = {} THEN <<s>>
        ELSE <<SubSeq(s, 1, SetMin(at) - 1)>>
                 \o split(SubSeq(s, SetMin(at) + 1, Len(s)), sep)

----------------------------------------------------------------------------
(* Output normalizer *)

\* empty_line_regex().replace_all(s, ""): the pattern ^\s*$ carries no
\* multi-line flag, so ^ matches at the start of the text only and $ at its
\* end only: the one possible match is the whole text, when all of it is
\* whitespace.
empty_line_replace_all(s) ==
    IF \A i \in 1..Len(s) : s[i] \in Whitespace THEN <<>> ELSE s

\* Regex \n{4,} in place of \n{3,}
RECURSIVE newlines_replace_all_four(_)
newlines_replace_all_four(s) ==
    IF s = <<>> THEN <<>>
    ELSE IF Head(s) # NL THEN <<Head(s)>> \o newlines_replace_all_four(Tail(s))
    ELSE LET k == RunLen(s, NL)
         IN  (IF k >= 4 THEN <<NL, NL>> ELSE SubSeq(s, 1, k))
                 \o newlines_replace_all_four(SubSeq(s, k + 1, Len(s)))

\* Regex \n{3} in place of \n{3,}: each match takes exactly three newlines
RECURSIVE newlines_replace_all_exact(_)
newlines_replace_all_exact(s) ==
    IF s = <<>> THEN <<>>
    ELSE IF Head(s) # NL THEN <<Head(s)>> \o newlines_replace_all_exact(Tail(s))
    ELSE LET k == RunLen(s, NL)
         IN  IF k >= 3
             THEN <<NL, NL>> \o newlines_replace_all_exact(SubSeq(s, 4, Len(s)))
             ELSE SubSeq(s, 1, k) \o newlines_replace_all_exact(SubSeq(s, k + 1, Len(s)))

\* more_than_three_newlines_regex().replace_all(s, "\n\n"): \n{3,} is greedy,
\* so every maximal run of three or more newlines becomes two newlines.
RECURSIVE more_than_three_newlines_replace_all(_)
more_than_three_newlines_replace_all(s) ==
    IF s = <<>> THEN <<>>
    ELSE IF Head(s) # NL
         THEN <<Head(s)>> \o more_than_three_newlines_replace_all(Tail(s))
    ELSE LET k == RunLen(s, NL)
         IN  (IF k >= 3 THEN <<NL, NL>> ELSE SubSeq(s, 1, k))
                 \o more_than_three_newlines_replace_all(SubSeq(s, k + 1, Len(s)))

\* MarkdownWriter::prettify_markdown
prettify_markdown(s) ==
    trim(more_than_three_newlines_replace_all(empty_line_replace_all(s)))

----------------------------------------------------------------------------
(* DOM nodes (markup5ever_rcdom::NodeData) and HtmlElement *)

Document(children) ==
    [kind |-> "Document", tag |-> "", attrs |-> <<>>, text |-> <<>>, children |-> children]

Comment ==
    [kind |-> "Comment", tag |-> "", attrs |-> <<>>, text |-> <<>>, children |-> <<>>]

Text(t) ==
    [kind |-> "Text", tag |-> "", attrs |-> <<>>, text |-> t, children |-> <<>>]

Element(tag, attrs, children) ==
    [kind |-> "Element", tag |-> tag, attrs |-> attrs, text |-> <<>>, children |-> children]

Attribute(name, value) == [name |-> name, value |-> value]

\* struct HtmlElement { tag, attrs }
HtmlElement(node) == [tag |-> node.tag, attrs |-> node.attrs]

\* visit_node: current_element is Some for an element with a non-empty name
HasCurrentElement(node) == node.kind = "Element" /\ node.tag # ""

\* enum StartTagOutcome, with what start_tag appended before returning
Continue(out) == [outcome |-> "Continue", out |-> out]

Skip(out) == [outcome |-> "Skip", out |-> out]

----------------------------------------------------------------------------
(* Tag context stack *)

\* MarkdownWriter::is_inside
is_inside(stack, tag) == \E i \in 1..Len(stack) : stack[i].tag = tag

\* VecDeque::pop_front in place of pop_back
pop_front(stack) == Tail(stack)

\* VecDeque::pop_back
pop_back(stack) == Front(stack)

\* VecDeque::push_back
push_back(stack, element) == Append(stack, element)

----------------------------------------------------------------------------
(* Tag rendering rules *)

Headings == {"h1", "h2", "h3", "h4", "h5", "h6"}

HeadingLevel(tag) ==
    CASE tag = "h1" -> 1 [] tag = "h2" -> 2 [] tag = "h3" -> 3
      [] tag = "h4" -> 4 [] tag = "h5" -> 5 [] tag = "h6" -> 6

\* attr.value.split(' ').any(|class| wanted.contains(&class.trim()))
AnyClassToken(value, wanted) ==
    LET classes == split(value, SP)
    IN  \E j \in 1..Len(classes) : trim(classes[j]) \in wanted

\* attrs.iter().any(|attr| name == "class" && attr.value == value)
AnyClassIs(attrs, value) ==
    \E i \in 1..Len(attrs) : attrs[i].name = "class" /\ attrs[i].value = value

\* attrs.iter().any(|attr| name == "class" && attr.value.split(' ').any(..))
AnyClassHas(attrs, wanted) ==
    \E i \in 1..Len(attrs) : attrs[i].name = "class" /\ AnyClassToken(attrs[i].value, wanted)

\* start_tag, "h1".."h6"
start_tag_heading(tag) ==
    Continue(<<NL, NL>> \o [k \in 1..HeadingLevel(tag.tag) |-> HASH] \o <<SP>>)

\* start_tag, "code"
start_tag_code(tag, stack) ==
    IF ~is_inside(stack, "pre") THEN Continue(<<BT>>) ELSE Continue(<<>>)

\* the language tag taken from any class attribute, not from the first one
start_tag_pre_any(tag) ==
    LET is_rust == AnyClassHas(tag.attrs, {<<"rust">>})
        language == IF is_rust THEN <<"r", "s">> ELSE <<>>
    IN  Continue(<<NL, BT, BT, BT>> \o language \o <<NL>>)

\* start_tag, "pre": find() takes the first attribute named class
start_tag_pre(tag) ==
    LET named == {i \in 1..Len(tag.attrs) : tag.attrs[i].name = "class"}
        is_rust == named # {} /\ AnyClassToken(tag.attrs[SetMin(named)].value, {<<"rust">>})
        language == IF is_rust THEN <<"r", "s">> ELSE <<>>
    IN  Continue(<<NL, BT, BT, BT>> \o language \o <<NL>>)

\* start_tag, "summary"
start_tag_summary(tag) ==
    IF AnyClassIs(tag.attrs, <<"hideme">>)
    THEN Skip(<<>>)
    ELSE Continue(<<>>)

classes_to_skip == {<<"nav-container">>, <<"sidebar-elems">>, <<"out-of-band">>}

\* the item-name backtick pushed before the skip classes are looked at
start_tag_div_span_late_skip(tag) ==
    LET name == IF AnyClassIs(tag.attrs, <<"item-name">>)
                THEN <<BT>> ELSE <<>>
    IN  IF AnyClassHas(tag.attrs, classes_to_skip)
        THEN Skip(name)
        ELSE Continue(name)

\* start_tag, "div" | "span"
start_tag_div_span(tag) ==
    IF AnyClassHas(tag.attrs, classes_to_skip)
    THEN Skip(<<>>)
    ELSE IF AnyClassIs(tag.attrs, <<"item-name">>)
         THEN Continue(<<BT>>)
         ELSE Continue(<<>>)

\* MarkdownWriter::start_tag: the outcome, and the text pushed onto markdown
start_tag(tag, stack) ==
    CASE tag.tag \in {"head", "script", "nav"} -> Skip(<<>>)
      [] tag.tag \in Headings                  -> start_tag_heading(tag)
      [] tag.tag = "code"                      -> start_tag_code(tag, stack)
      [] tag.tag = "pre"                       -> start_tag_pre(tag)
      [] tag.tag \in {"ul", "ol"}              -> Continue(<<NL>>)
      [] tag.tag = "li"                        -> Continue(<<"-", SP>>)
      [] tag.tag = "summary"                   -> start_tag_summary(tag)
      [] tag.tag \in {"div", "span"}           -> start_tag_div_span(tag)
      [] OTHER                                 -> Continue(<<>>)

\* MarkdownWriter::end_tag: the text pushed onto markdown
end_tag(tag, stack) ==
    CASE tag.tag \in Headings     -> <<NL, NL>>
      [] tag.tag = "code"         -> IF ~is_inside(stack, "pre") THEN <<BT>> ELSE <<>>
      [] tag.tag = "pre"          -> <<NL, BT, BT, BT, NL>>
      [] tag.tag \in {"ul", "ol"} -> <<NL>>
      [] tag.tag = "li"           -> <<NL>>
      [] tag.tag = "div"          ->
             IF AnyClassIs(tag.attrs, <<"item-name">>)
             THEN <<BT, ":", SP>> ELSE <<>>
      [] OTHER                    -> <<>>

----------------------------------------------------------------------------
(* Text node renderer *)

\* the characters visit_text strips outside pre
TextTrimChars == {NL, CR, SECT}

\* the text pushed whole, never trimmed
visit_text_untrimmed(text, stack) == text

\* the text trimmed under pre as well
visit_text_always_trimmed(text, stack) == trim_matches(text, TextTrimChars)

\* MarkdownWriter::visit_text: the text pushed onto markdown
visit_text(text, stack) ==
    IF is_inside(stack, "pre") THEN text ELSE trim_matches(text, TextTrimChars)

----------------------------------------------------------------------------
(* visit_node as a function of the subtree: what it appends to markdown *)

RECURSIVE visit_node_out(_, _)
RECURSIVE visit_children_out(_, _)

visit_children_out(children, stack) ==
    IF children = <<>> THEN <<>>
    ELSE visit_node_out(Head(children), stack) \o visit_children_out(Tail(children), stack)

visit_node_out(node, stack) ==
    IF HasCurrentElement(node)
    THEN LET started == start_tag(HtmlElement(node), stack)
         IN  IF started.outcome = "Skip" THEN started.out
             ELSE started.out
                      \o visit_children_out(node.children, push_back(stack, HtmlElement(node)))
                      \o end_tag(HtmlElement(node), stack)
    ELSE (IF node.kind = "Text" THEN visit_text(node.text, stack) ELSE <<>>)
             \o visit_children_out(node.children, stack)

----------------------------------------------------------------------------
(* Input trees *)

TextChars == {"a", SP, TAB, NL, CR, SECT}

Texts == SeqsUpTo(TextChars, MaxTextLen)
             \cup {<<"a", NL, NL, NL, "a">>, <<"a", NL, SP, NL, "a">>, <<"a", NL, CR, NL, "a">>,
                   <<SP, SP, "a", NL, NL, NL, "a">>}

Class(value) == Attribute("class", value)

ClassWords == {"rust", "hideme", "item-name", "out-of-band", "x"}

ClassValues ==
    {<<w>> : w \in ClassWords}
        \cup {<<"x", SP, "rust">>, <<TAB, "rust">>, <<"rust", "x">>,
              <<"item-name", SP, "x">>, <<"x", SP, SP, "sidebar-elems">>,
              <<"nav-container", TAB>>, <<>>}

Attributes == {Class(v) : v \in ClassValues} \cup {Attribute("id", <<"item-name">>)}

AttrLists == SeqsUpTo(Attributes, MaxAttrs)

\* the elements of chain nested in one another, outermost first, around children
RECURSIVE Wrap(_, _)
Wrap(chain, children) ==
    IF chain = <<>> THEN children
    ELSE <<Element(Head(chain).tag, Head(chain).attrs, Wrap(Tail(chain), children))>>

E(tag) == [tag |-> tag, attrs |-> <<>>]

EC(tag, class) == [tag |-> tag, attrs |-> <<Class(<<class>>)>>]

Chains ==
    {<<>>, <<E("p")>>, <<E("code")>>, <<E("p"), E("code")>>, <<E("pre")>>,
     <<E("pre"), E("code")>>, <<EC("pre", "rust"), E("code")>>,
     <<E("pre"), E("p"), E("code")>>, <<E("code"), E("pre")>>,
     <<E("h1")>>, <<E("h3"), E("code")>>, <<E("ul"), E("li")>>, <<E("ol"), E("li")>>,
     <<EC("div", "item-name")>>, <<EC("span", "item-name")>>,
     <<E("nav"), E("pre")>>, <<EC("div", "out-of-band"), E("code")>>,
     <<EC("summary", "hideme")>>, <<E("summary")>>, <<E(""), E("code")>>,
     <<E("pre"), E(""), E("code")>>, <<E("head"), E("script")>>}

\* one text node under a chain of elements
TextTrees == {Document(Wrap(ch, <<Text(t)>>)) : ch \in Chains, t \in Texts}

AttrTags == {"pre", "summary", "div", "span", "p"}

\* one element carrying a list of attributes, then a sibling text
AttrTrees ==
    {Document(<<Element(tag, attrs, <<Text(<<"a">>)>>), Text(<<"b">>)>>) :
        tag \in AttrTags, attrs \in AttrLists}

A == <<"a">>

B == <<"b">>

Blocks ==
    {Text(A), Text(<<NL, SP, NL>>), Comment,
     Element("p", <<>>, <<Text(A)>>),
     Element("h1", <<>>, <<Text(<<"a", SECT>>)>>),
     Element("h6", <<>>, <<Element("code", <<>>, <<Text(A)>>)>>),
     Element("pre", <<Class(<<"rust">>)>>, <<Element("code", <<>>, <<Text(<<"a", NL, NL, NL, "b">>)>>)>>),
     Element("ul", <<>>, <<Element("li", <<>>, <<Text(A)>>), Element("li", <<>>, <<Text(B)>>)>>),
     Element("nav", <<>>, <<Element("h1", <<>>, <<Text(A)>>), Text(B)>>),
     Element("script", <<>>, <<Text(A)>>),
     Element("div", <<Class(<<"item-name">>)>>, <<Text(A)>>),
     Element("span", <<Class(<<"item-name">>)>>, <<Text(A)>>),
     Element("span", <<Class(<<"out-of-band">>)>>, <<Element("pre", <<>>, <<Text(A)>>)>>),
     Element("summary", <<Class(<<"hideme">>)>>, <<Text(A)>>),
     Element("", <<>>, <<Element("h2", <<>>, <<Text(A)>>), Element("nav", <<>>, <<>>)>>),
     Element("code", <<>>, <<Text(A), Element("code", <<>>, <<Text(B)>>)>>)}

\* two subtrees side by side, under the document or under a div
PairTrees ==
    {Document(<<x, y>>) : x \in Blocks, y \in Blocks}
        \cup {Document(<<Element("div", <<>>, <<x, y>>)>>) : x \in Blocks, y \in Blocks}

\* four lines, each empty or one whitespace character, between two newlines
BlankLines ==
    {<<NL>> \o Concat([k \in 1..4 |-> l[k] \o <<NL>>]) : l \in [1..4 -> {<<>>, <<SP>>, <<TAB>>}]}

\* two paragraphs with four blank lines between them: as two p elements
\* around a text node, and as the lines of one text node
BlankLineTrees ==
    {Document(<<Element("p", <<>>, <<Text(A)>>), Text(sep), Element("p", <<>>, <<Text(B)>>)>>) :
        sep \in BlankLines}
        \cup {Document(<<Element("p", <<>>, <<Text(A \o sep \o B)>>)>>) : sep \in BlankLines}

Trees == TextTrees \cup AttrTrees \cup PairTrees \cup BlankLineTrees

----------------------------------------------------------------------------
(* MarkdownWriter::run as a state machine: one frame per call of visit_node *)

Frame(node) == [node |-> node, pc |-> "enter", i |-> 1]

Top == frames[Len(frames)]

Entering == phase = "visit" /\ frames # <<>> /\ Top.pc = "enter"

InChildren == phase = "visit" /\ frames # <<>> /\ Top.pc = "children"

ToChildren == frames' = [frames EXCEPT ![Len(frames)].pc = "children"]

\* MarkdownWriter::new, then run called on a tree
Init ==
    /\ tree \in Trees
    /\ frames = <<Frame(tree)>>
    /\ current_element_stack = <<>>
    /\ markdown = <<>>
    /\ phase = "visit"
    /\ result = <<>>

\* visit_node on a Document, Doctype, ProcessingInstruction or Comment, or on
\* an element whose name is empty: current_element stays None
VisitNodeOther ==
    /\ Entering
    /\ Top.node.kind # "Text" /\ ~HasCurrentElement(Top.node)
    /\ ToChildren
    /\ UNCHANGED <<tree, current_element_stack, markdown, phase, result>>

\* visit_node on a Text node
VisitNodeText ==
    /\ Entering
    /\ Top.node.kind = "Text"
    /\ markdown' = markdown \o visit_text(Top.node.text, current_element_stack)
    /\ ToChildren
    /\ UNCHANGED <<tree, current_element_stack, phase, result>>

\* visit_node on an element, start_tag says Skip: return at once
VisitNodeSkip ==
    /\ Entering
    /\ HasCurrentElement(Top.node)
    /\ LET started == start_tag(HtmlElement(Top.node), current_element_stack)
       IN  /\ started.outcome = "Skip"
           /\ markdown' = markdown \o started.out
    /\ frames' = Front(frames)
    /\ UNCHANGED <<tree, current_element_stack, phase, result>>

\* visit_node on an element, start_tag says Continue: push it
VisitNodeContinue ==
    /\ Entering
    /\ HasCurrentElement(Top.node)
    /\ LET started == start_tag(HtmlElement(Top.node), current_element_stack)
       IN  /\ started.outcome = "Continue"
           /\ markdown' = markdown \o started.out
    /\ current_element_stack' = push_back(current_element_stack, HtmlElement(Top.node))
    /\ ToChildren
    /\ UNCHANGED <<tree, phase, result>>

\* the loop over node.children: the call of visit_node on the next child
VisitNodeChild ==
    /\ InChildren
    /\ Top.i <= Len(Top.node.children)
    /\ frames' = Append([frames EXCEPT ![Len(frames)].i = Top.i + 1],
                        Frame(Top.node.children[Top.i]))
    /\ UNCHANGED <<tree, current_element_stack, markdown, phase, result>>

\* after the children of an element: pop it, end_tag, return
VisitNodeEndTag ==
    /\ InChildren
    /\ Top.i > Len(Top.node.children)
    /\ HasCurrentElement(Top.node)
    /\ current_element_stack' = pop_back(current_element_stack)
    /\ markdown' = markdown \o end_tag(HtmlElement(Top.node), current_element_stack')
    /\ frames' = Front(frames)
    /\ UNCHANGED <<tree, phase, result>>

\* after the children of any other node: return
VisitNodeReturn ==
    /\ InChildren
    /\ Top.i > Len(Top.node.children)
    /\ ~HasCurrentElement(Top.node)
    /\ frames' = Front(frames)
    /\ UNCHANGED <<tree, current_element_stack, markdown, phase, result>>

\* run, after visit_node returned: Ok(prettify_markdown(self.markdown))
RunReturn ==
    /\ phase = "visit"
    /\ frames = <<>>
    /\ result' = prettify_markdown(markdown)
    /\ phase' = "done"
    /\ UNCHANGED <<tree, frames, current_element_stack, markdown>>

Next ==
    \/ VisitNodeOther
    \/ VisitNodeText
    \/ VisitNodeSkip
    \/ VisitNodeContinue
    \/ VisitNodeChild
    \/ VisitNodeEndTag
    \/ VisitNodeReturn
    \/ RunReturn

Spec == Init /\ [][Next]_vars

----------------------------------------------------------------------------
(* prettify_markdown on its own, applied to a text and then to its result *)

NormChars == {"a", SP, NL, CR}

NormInit ==
    /\ tree = Document(<<>>)
    /\ frames = <<>>
    /\ current_element_stack = <<>>
    /\ markdown \in SeqsUpTo(NormChars, MaxNormLen)
    /\ phase = "norm0"
    /\ result = <<>>

\* prettify_markdown(markdown)
Prettify ==
    /\ phase = "norm0"
    /\ result' = prettify_markdown(markdown)
    /\ phase' = "norm1"
    /\ UNCHANGED <<tree, frames, current_element_stack, markdown>>

\* prettify_markdown on the text it returned
PrettifyAgain ==
    /\ phase = "norm1"
    /\ result' = prettify_markdown(result)
    /\ phase' = "norm2"
    /\ UNCHANGED <<tree, frames, current_element_stack, markdown>>

NormNext == Prettify \/ PrettifyAgain

NormSpec == NormInit /\ [][NormNext]_vars

----------------------------------------------------------------------------
(* Properties: shared definitions *)

\* whether the enter rule of node signals skip
SignalsSkip(node) ==
    HasCurrentElement(node) /\ start_tag(HtmlElement(node), <<>>).outcome = "Skip"

\* the nodes of the subtree that no skipped element contains, each with its
\* named element ancestors, outermost first
RECURSIVE Visited(_, _)
Visited(node, ancestors) ==
    IF SignalsSkip(node) THEN {}
    ELSE LET below == IF HasCurrentElement(node)
                      THEN Append(ancestors, HtmlElement(node))
                      ELSE ancestors
         IN  {[node |-> node, ancestors |-> ancestors]}
                 \cup UNION {Visited(node.children[i], below) : i \in 1..Len(node.children)}

\* the subtree without the elements whose enter rule signals skip
RECURSIVE Prune(_)
RECURSIVE PruneAll(_)

PruneAll(children) ==
    IF children = <<>> THEN <<>>
    ELSE IF SignalsSkip(Head(children)) THEN PruneAll(Tail(children))
    ELSE <<Prune(Head(children))>> \o PruneAll(Tail(children))

Prune(node) == [node EXCEPT !.children = PruneAll(node.children)]

\* what the step appends to markdown
Appended == SubSeq(markdown', Len(markdown) + 1, Len(markdown'))

\* the step is visit_node returning from an element after its children
Exiting == InChildren /\ Top.i > Len(Top.node.children) /\ HasCurrentElement(Top.node)

\* the step is visit_node meeting an element with a name
EnteringElement == Entering /\ HasCurrentElement(Top.node)

HasPreAncestor(o) == \E i \in 1..Len(o.ancestors) : o.ancestors[i].tag = "pre"

OnlyChildIsText(node) == Len(node.children) = 1 /\ node.children[1].kind = "Text"

\* the lines of s that are not empty and hold blanks and tabs only
WhitespaceOnlyLines(s) ==
    LET lines == split(s, NL)
    IN  {i \in 1..Len(lines) :
            lines[i] # <<>> /\ \A j \in 1..Len(lines[i]) : lines[i][j] \in {SP, TAB}}

----------------------------------------------------------------------------
(* C1 *)

\* C1: an element whose enter rule signals skip, and everything below it,
\* appends nothing: no frame is ever opened below such an element, and the
\* buffer and the result of run are those of the tree without these elements.
C1_SkipPruning ==
    /\ \A k \in 1..Len(frames) :
           SignalsSkip(frames[k].node) => k = Len(frames) /\ frames[k].pc = "enter"
    /\ phase = "done" =>
           /\ markdown = visit_node_out(Prune(tree), <<>>)
           /\ result = prettify_markdown(visit_node_out(Prune(tree), <<>>))

\* a run is over in which a skipped element held text and other text came out
C1_Witness ==
    /\ phase = "done"
    /\ result # <<>>
    /\ \E i \in 1..Len(tree.children) :
           /\ SignalsSkip(tree.children[i])
           /\ visit_children_out(tree.children[i].children, <<>>) # <<>>

----------------------------------------------------------------------------
(* C2 *)

\* C2: no line of the string run returns is made of whitespace alone (one or
\* more blanks or tabs and nothing else).
C2_NoWhitespaceOnlyLines ==
    phase = "done" => WhitespaceOnlyLines(result) = {}

----------------------------------------------------------------------------
(* C3 *)

\* C3 as claimed: the content of every text node under pre is found in the
\* output exactly as it is in the input.
C3_PreTextExact ==
    phase = "done" =>
        \A o \in Visited(tree, <<>>) :
            (o.node.kind = "Text" /\ HasPreAncestor(o)) => IsSubstring(o.node.text, result)

\* C3 as amended: the content of every visited text node under pre is found
\* in the output with nothing changed but its runs of three or more newlines,
\* each collapsed to two; and where a pre holds one code holding one text,
\* the output has the opening fence, that text and the closing fence next to
\* one another, no backtick of the code element in between.
C3_PreTextUpToNewlineRuns ==
    phase = "done" =>
        \A o \in Visited(tree, <<>>) :
            /\ (o.node.kind = "Text" /\ HasPreAncestor(o)) =>
                   IsSubstring(more_than_three_newlines_replace_all(o.node.text), result)
            /\ (/\ o.node.kind = "Element" /\ o.node.tag = "pre"
                /\ Len(o.node.children) = 1
                /\ o.node.children[1].kind = "Element"
                /\ o.node.children[1].tag = "code"
                /\ OnlyChildIsText(o.node.children[1])) =>
                   \E language \in {<<>>, <<"r", "s">>} :
                       IsSubstring(
                           more_than_three_newlines_replace_all(
                               <<BT, BT, BT>> \o language \o <<NL>>
                                   \o o.node.children[1].children[1].text
                                   \o <<NL, BT, BT, BT>>),
                           result)

\* a run is over on pre > code > text where the text has blanks and a run of
\* three newlines in it
C3_Witness ==
    /\ phase = "done"
    /\ \E o \in Visited(tree, <<>>) :
           /\ o.node.kind = "Text"
           /\ Len(o.ancestors) = 2
           /\ o.ancestors[1].tag = "pre" /\ o.ancestors[2].tag = "code"
           /\ IsSubstring(<<NL, NL, NL>>, o.node.text)
           /\ IsSubstring(<<SP, SP>>, o.node.text)
    /\ IsSubstring(<<BT, BT, BT, NL, SP, SP, "a", NL, NL, "a", NL, BT, BT, BT>>, result)

----------------------------------------------------------------------------
(* C4 *)

\* C4 as claimed: for a code element outside pre whose only child is a text,
\* the output holds a backtick, the text with the whitespace around it
\* trimmed, and a backtick.
C4_InlineCodeWhitespaceTrimmed ==
    phase = "done" =>
        \A o \in Visited(tree, <<>>) :
            (/\ o.node.kind = "Element" /\ o.node.tag = "code"
             /\ ~HasPreAncestor(o)
             /\ OnlyChildIsText(o.node)) =>
                IsSubstring(<<BT>> \o trim(o.node.children[1].text) \o <<BT>>, result)

\* C4 as amended: for a visited code element outside pre whose only child is
\* a text, the output holds a backtick, the text with the newlines, carriage
\* returns and section signs at its ends removed (blanks and tabs stay) and
\* its runs of three or more newlines collapsed to two, and a backtick.
C4_InlineCodeNewlinesTrimmed ==
    phase = "done" =>
        \A o \in Visited(tree, <<>>) :
            (/\ o.node.kind = "Element" /\ o.node.tag = "code"
             /\ ~HasPreAncestor(o)
             /\ OnlyChildIsText(o.node)) =>
                IsSubstring(
                    more_than_three_newlines_replace_all(
                        <<BT>> \o trim_matches(o.node.children[1].text, {NL, CR, SECT}) \o <<BT>>),
                    result)

\* a run is over on a code element outside pre whose text starts with a
\* newline and ends with a blank
C4_Witness ==
    /\ phase = "done"
    /\ \E o \in Visited(tree, <<>>) :
           /\ o.node.kind = "Element" /\ o.node.tag = "code"
           /\ ~HasPreAncestor(o)
           /\ OnlyChildIsText(o.node)
           /\ Len(o.node.children[1].text) = 3
           /\ Head(o.node.children[1].text) = NL
           /\ Last(o.node.children[1].text) = SP
    /\ IsSubstring(<<BT, "a", SP, BT>>, result)

----------------------------------------------------------------------------
(* C5 *)

\* the attributes without the class attributes that follow the first one
FirstClassOnly(attrs) ==
    LET named == {i \in 1..Len(attrs) : attrs[i].name = "class"}
    IN  IF named = {} THEN attrs
        ELSE SubSeq(attrs, 1, SetMin(named))
                 \o SelectSeq(SubSeq(attrs, SetMin(named) + 1, Len(attrs)),
                              LAMBDA a : a.name # "class")

\* C5 as claimed: every class-based rule, on entering and on leaving an
\* element, does what it would do if the element carried its first class
\* attribute only.
C5_FirstClassAttributeOnly ==
    [][
        /\ EnteringElement =>
               LET first == [tag |-> Top.node.tag, attrs |-> FirstClassOnly(Top.node.attrs)]
                   rule == start_tag(first, current_element_stack)
               IN  /\ Appended = rule.out
                   /\ (frames' = Front(frames)) <=> (rule.outcome = "Skip")
        /\ Exiting =>
               LET first == [tag |-> Top.node.tag, attrs |-> FirstClassOnly(Top.node.attrs)]
               IN  Appended = end_tag(first, current_element_stack')
    ]_vars

ClassValuesOf(attrs) ==
    {attrs[i].value : i \in {j \in 1..Len(attrs) : attrs[j].name = "class"}}

HasToken(value, wanted) ==
    \E j \in 1..Len(split(value, SP)) : trim(split(value, SP)[j]) \in wanted

\* C5 as amended: the language tag of pre is decided by the first class
\* attribute alone; the rules of summary, div and span (hideme, the skip
\* classes, item-name on entering and on leaving) hold as soon as any class
\* attribute of the element meets the condition, the first or a later one.
C5_FirstForPreAnyForOthers ==
    [][
        /\ (EnteringElement /\ Top.node.tag = "pre") =>
               LET attrs == Top.node.attrs
                   named == {i \in 1..Len(attrs) : attrs[i].name = "class"}
                   rust  == named # {} /\ HasToken(attrs[SetMin(named)].value, {<<"rust">>})
               IN  /\ Appended = <<NL, BT, BT, BT>> \o (IF rust THEN <<"r", "s">> ELSE <<>>) \o <<NL>>
                   /\ frames' # Front(frames)
        /\ (EnteringElement /\ Top.node.tag = "summary") =>
               /\ Appended = <<>>
               /\ (frames' = Front(frames)) <=> (<<"hideme">> \in ClassValuesOf(Top.node.attrs))
        /\ (EnteringElement /\ Top.node.tag \in {"div", "span"}) =>
               LET skip == \E v \in ClassValuesOf(Top.node.attrs) :
                               HasToken(v, {<<"nav-container">>, <<"sidebar-elems">>, <<"out-of-band">>})
                   name == <<"item-name">> \in ClassValuesOf(Top.node.attrs)
               IN  /\ (frames' = Front(frames)) <=> skip
                   /\ Appended = IF ~skip /\ name THEN <<BT>> ELSE <<>>
        /\ (Exiting /\ Top.node.tag = "div") =>
               Appended = IF <<"item-name">> \in ClassValuesOf(Top.node.attrs)
                          THEN <<BT, ":", SP>> ELSE <<>>
    ]_vars

\* the children of an element with two class attributes are being visited:
\* a pre whose second class is rust and that got no language tag, or a div
\* whose second class is item-name and that got its backtick
C5_Witness ==
    /\ InChildren
    /\ Len(Top.node.attrs) = 2
    /\ Top.node.attrs[1] = Class(<<"x">>)
    /\ \/ /\ Top.node.tag = "pre"
          /\ Top.node.attrs[2] = Class(<<"rust">>)
          /\ markdown = <<NL, BT, BT, BT, NL>>
       \/ /\ Top.node.tag = "div"
          /\ Top.node.attrs[2] = Class(<<"item-name">>)
          /\ markdown = <<BT>>

----------------------------------------------------------------------------
(* C6 *)

\* the elements the calls of visit_node in progress have entered and pushed
RECURSIVE OpenElements(_)
OpenElements(fs) ==
    IF fs = <<>> THEN <<>>
    ELSE (IF HasCurrentElement(Head(fs).node) /\ Head(fs).pc = "children"
          THEN <<HtmlElement(Head(fs).node)>> ELSE <<>>) \o OpenElements(Tail(fs))

\* C6: throughout the traversal the stack holds exactly the named, not
\* skipped elements whose children are being visited, outermost first (so
\* its length is the number of such elements around the node being visited),
\* and the stack is empty when run is over.
C6_StackIsAncestorChain ==
    /\ current_element_stack = OpenElements(frames)
    /\ \A k \in 1..Len(frames) :
           (frames[k].pc = "children" /\ HasCurrentElement(frames[k].node)) =>
               ~SignalsSkip(frames[k].node)
    /\ phase = "done" => current_element_stack = <<>> /\ frames = <<>>

\* a text is being visited under pre, an element without a name, and code:
\* the stack holds pre and code
C6_Witness ==
    /\ Entering
    /\ Top.node.kind = "Text"
    /\ Len(frames) = 5
    /\ frames[3].node.kind = "Element" /\ frames[3].node.tag = ""
    /\ Len(current_element_stack) = 2
    /\ current_element_stack[1].tag = "pre"
    /\ current_element_stack[2].tag = "code"

----------------------------------------------------------------------------
(* C7 *)

\* C7: the string run returns holds no three newlines in a row.
C7_NoTripleNewline ==
    phase = "done" => ~IsSubstring(<<NL, NL, NL>>, result)

\* a run is over whose buffer held exactly three newlines in a row, and two
\* of them are in the result
C7_Witness ==
    /\ phase = "done"
    /\ IsSubstring(<<NL, NL, NL>>, markdown)
    /\ ~IsSubstring(<<NL, NL, NL, NL>>, markdown)
    /\ IsSubstring(<<NL, NL>>, result)

----------------------------------------------------------------------------
(* C8 *)

\* C8: prettify_markdown applied to its own result returns it unchanged.
C8_Idempotent ==
    [][phase = "norm1" => result' = result]_vars

\* prettify_markdown was applied twice to a text that the first application
\* changed in all three ways: newlines collapsed, ends trimmed
C8_Witness ==
    /\ phase = "norm2"
    /\ IsSubstring(<<NL, NL, NL>>, markdown)
    /\ Head(markdown) = SP
    /\ IsSubstring(<<"a", NL, NL, "a">>, result)

----------------------------------------------------------------------------
(* C9 *)

\* C9: when four blank lines, each empty or of whitespace only, stand between
\* two paragraphs, the output is the first paragraph, one empty line, the
\* second paragraph.
C9_BlankLinesCollapse ==
    (phase = "done" /\ tree \in BlankLineTrees) => result = <<"a", NL, NL, "b">>

----------------------------------------------------------------------------
(* C10 *)

\* C10: on leaving an element the exit rule appends a closing backtick (a
\* backtick at the head of what it appends) exactly when the enter rule of
\* that element appended an opening backtick.
C10_BackticksPairUp ==
    [][
        Exiting =>
            ((Appended # <<>> /\ Head(Appended) = BT)
                <=> (start_tag(HtmlElement(Top.node), current_element_stack').out = <<BT>>))
    ]_vars

====
